---- MODULE Spec2Model ----
(***************************************************************************)
(* Model of addon/i3dio/ui/shader_picker.py: the shader descriptor parsing *)
(* (parameter_element_as_dict, texture_element_as_dict), the two loading   *)
(* operators, clear_shader, the property setters of I3DMaterialShader and  *)
(* the module-level SHADER_CACHE.                                          *)
(*                                                                         *)
(* Encoding conventions                                                    *)
(*   - a string that the code splits (defaultValue, element text, groups)  *)
(*     is a sequence of pieces; the piece " " is whitespace, every other   *)
(*     piece is a run of non-whitespace characters;                        *)
(*   - an optional value (dict.get(...) that may be None, Element.find)    *)
(*     is a sequence of length 0 (None) or 1;                              *)
(*   - float values are integers (the descriptors used hold only decimal   *)
(*     digit strings and one non-numeric token);                           *)
(*   - a Python exception is the flag exc of the threaded world record.    *)
(***************************************************************************)
EXTENDS Integers, Sequences, FiniteSets, TLC

VARIABLES
    mats,           \* bpy.data.materials: name -> i3d_attributes
    SHADER_CACHE,   \* module global, [set |-> FALSE] models None
    scans,          \* history: number of shader_dir.glob('*.xml') calls (saturating)
    fs,             \* descriptor files: path -> file content
    dirExists,      \* <fs_data_path>/shaders exists
    active,         \* context.object.active_material (NoMat when there is none)
    last,           \* the operation the last step ran and how it ended
    parameter,      \* input of the parser specification: a Parameter element
    parameter_list  \* its result

vars == <<mats, SHADER_CACHE, scans, fs, dirExists, active, last, parameter, parameter_list>>

\* ---------------------------------------------------------------- constants
shader_default == "None"
shader_custom == "Custom"
custom_shader_default == ""
shader_no_variation == "None"
STATIC_ITEMS == <<shader_default, shader_custom>>

None == <<>>
Some(v) == <<v>>
IsNone(o) == Len(o) = 0
Val(o) == o[1]

Min(a, b) == IF a <= b THEN a ELSE b

\* ---------------------------------------------------------------- str.split / float
\* str.split() with no argument: runs of whitespace separate the tokens,
\* leading and trailing whitespace yields no empty token.  A token is the
\* sequence of the non-whitespace pieces between two whitespace runs.
RECURSIVE SplitFrom(_, _, _)
SplitFrom(s, i, cur) ==
    IF i > Len(s)
    THEN IF cur = <<>> THEN <<>> ELSE <<cur>>
    ELSE IF s[i] = " "
         THEN (IF cur = <<>> THEN <<>> ELSE <<cur>>) \o SplitFrom(s, i + 1, <<>>)
         ELSE SplitFrom(s, i + 1, Append(cur, s[i]))

split(s) == SplitFrom(s, 1, <<>>)

\* The pieces of a token written as one string.
RECURSIVE Joined(_)
Joined(tok) == IF tok = <<>> THEN "" ELSE Head(tok) \o Joined(Tail(tok))

IsDigit(c) == c \in {"0", "1", "2", "3", "4", "5", "6", "7", "8", "9"}

DigitValue(c) ==
    CASE c = "0" -> 0 [] c = "1" -> 1 [] c = "2" -> 2 [] c = "3" -> 3 [] c = "4" -> 4
      [] c = "5" -> 5 [] c = "6" -> 6 [] c = "7" -> 7 [] c = "8" -> 8 [] c = "9" -> 9

\* float(token) raises ValueError unless the token is numeric.
FloatOk(tok) == tok # <<>> /\ \A i \in 1..Len(tok) : IsDigit(tok[i])

RECURSIVE FloatOf(_)
FloatOf(tok) ==
    IF Len(tok) = 0 THEN 0
    ELSE 10 * FloatOf(SubSeq(tok, 1, Len(tok) - 1)) + DigitValue(tok[Len(tok)])

\* ---------------------------------------------------------------- parameter_element_as_dict
\* type_length, or None when no branch assigned it (the name stays unbound).
TypeLength(type) ==
    IF type = "float" THEN Some(1)
    ELSE IF type = "float2" THEN Some(2)
    ELSE IF type = "float3" THEN Some(3)
    ELSE IF type = "float4" THEN Some(4)
    ELSE None

Zeros(n) == [i \in 1..n |-> <<"0">>]

\* The slice default_parsed[:type_length-1].
Truncate(default_parsed, type_length) == SubSeq(default_parsed, 1, type_length - 1)

\* A parser that appends no zeros.
PadNone(default_parsed, type_length) == default_parsed
\* The padding ['0']*(type_length-len(default_parsed)); a negative count gives [].
Pad(default_parsed, type_length) ==
    default_parsed \o Zeros(IF type_length > Len(default_parsed)
                            THEN type_length - Len(default_parsed) ELSE 0)

\* parse_default(default): [raised, value].  Reading the unbound type_length raises.
parse_default(default, tl) ==
    IF IsNone(tl)
    THEN [raised |-> TRUE, value |-> <<>>]
    ELSE LET type_length == Val(tl)
             split_default == IF IsNone(default) THEN <<>> ELSE split(Val(default))
             default_parsed == IF Len(split_default) > type_length
                               THEN Truncate(split_default, type_length)
                               ELSE split_default
         IN  [raised |-> FALSE, value |-> Pad(default_parsed, type_length)]

ParamDict(name, type, default_value) ==
    [name |-> name, type |-> type, default_value |-> default_value]

\* The arraySize branch: one dict per child, in child order.
RECURSIVE ArrayDicts(_, _)
ArrayDicts(p, i) ==
    IF i > Len(p.children)
    THEN [raised |-> FALSE, list |-> <<>>]
    ELSE LET child == p.children[i]
             d == parse_default(child.text, TypeLength(p.type))
             rest == ArrayDicts(p, i + 1)
         IN  IF d.raised \/ rest.raised
             THEN [raised |-> TRUE, list |-> <<>>]
             ELSE [raised |-> FALSE,
                   list |-> <<ParamDict(p.name \o child.index, p.type, d.value)>> \o rest.list]

SingleDictNoArray(p) ==
    LET d == parse_default(p.defaultValue, TypeLength(p.type))
    IN  IF d.raised
        THEN [raised |-> TRUE, list |-> <<>>]
        ELSE [raised |-> FALSE, list |-> <<ParamDict(p.name, p.type, d.value)>>]

\* A parser that ignores arraySize.
parameter_element_as_dictIgnoreArray(p) == SingleDictNoArray(p)
parameter_element_as_dict(p) ==
    IF p.arraySize THEN ArrayDicts(p, 1) ELSE SingleDictNoArray(p)

\* ---------------------------------------------------------------- texture_element_as_dict
texture_element_as_dict(texture) ==
    [name |-> texture.name,
     default_file |-> IF IsNone(texture.defaultFilename) THEN "" ELSE Val(texture.defaultFilename)]

\* ---------------------------------------------------------------- descriptor documents
\* A Parameter element: attrib name, type, group (optional), arraySize
\* (present or not), defaultValue (optional) and its child elements.
Param(name, type, group, arraySize, defaultValue, children) ==
    [name |-> name, type |-> type, group |-> group, arraySize |-> arraySize,
     defaultValue |-> defaultValue, children |-> children]

Child(index, text) == [index |-> index, text |-> text]

Texture(name, group, defaultColorProfile, defaultFilename) ==
    [name |-> name, group |-> group, defaultColorProfile |-> defaultColorProfile,
     defaultFilename |-> defaultFilename]

Variation(name, groups) == [name |-> name, groups |-> groups]

\* A file: missing, not well-formed, or a document with a root tag and the
\* optional Parameters / Textures / Variations children of the root.
Missing == [kind |-> "missing"]
Malformed == [kind |-> "malformed"]
Document(root, Parameters, Textures, Variations) ==
    [kind |-> "xml", root |-> root, Parameters |-> Parameters, Textures |-> Textures,
     Variations |-> Variations]

\* The descriptors the files of the model hold.
DescA ==
    Document("CustomShader",
        Some(<< Param("alpha", "float", None, FALSE, Some(<<"1">>), <<>>),
                Param("tint", "float3", Some("base"), FALSE, None, <<>>),
                Param("scroll", "float2", Some("extra"), FALSE, Some(<<"3", " ", "4">>), <<>>),
                Param("arr", "float2", None, TRUE, None,
                      << Child("0", Some(<<"1", " ", "2">>)), Child("1", None) >>) >>),
        Some(<< Texture("map", None, Some("sRGB"), Some("a.png")),
                Texture("noprofile", Some("base"), None, Some("b.png")),
                Texture("detail", Some("extra"), Some("linear"), None),
                Texture("baseTex", Some("base"), Some("sRGB"), Some("c.png")) >>),
        Some(<< Variation("v1", Some(<<"extra">>)),
                Variation("v2", Some(<<"extra", " ", " ", "mandatory">>)) >>))

DescB ==
    Document("CustomShader",
        Some(<< Param("q", "float4", None, FALSE, Some(<<"1", " ", "2">>), <<>>),
                Param("r", "float", Some("base"), FALSE,
                      Some(<<"1", " ", "2", " ", "3", " ", "4">>), <<>>) >>),
        None,
        None)

DescWrongRoot ==
    Document("Shader",
        Some(<< Param("z", "float2", None, FALSE, Some(<<"5">>), <<>>) >>),
        None,
        Some(<< Variation("other", None) >>))

DescNonNumeric ==
    Document("CustomShader",
        Some(<< Param("ok", "float", None, FALSE, Some(<<"2">>), <<>>),
                Param("bad", "float2", None, FALSE, Some(<<"1", " ", "x">>), <<>>) >>),
        Some(<< Texture("t", None, Some("sRGB"), Some("t.png")) >>),
        None)

DescUnknownType ==
    Document("CustomShader",
        Some(<< Param("u", "int", None, FALSE, Some(<<"1">>), <<>>) >>),
        None,
        None)

ShaderNames == <<"s1", "s2", "s3">>
ShaderPath(shader) == "shaders/" \o shader \o ".xml"
InShaderDir(path) == path \in {ShaderPath(ShaderNames[i]) : i \in 1..Len(ShaderNames)}

\* The files of the model; any other path names no file.
CustomPaths == {"custom/wrongRoot.xml", "custom/nonNumeric.xml", "custom/unknownType.xml"}
AbsentPath == "custom/absent.xml"
FilePaths == {ShaderPath(ShaderNames[i]) : i \in 1..Len(ShaderNames)} \cup CustomPaths

\* fs names the content of each file; Content is the file of that name.
Content(id) ==
    CASE id = "A" -> DescA
      [] id = "B" -> DescB
      [] id = "wrongRoot" -> DescWrongRoot
      [] id = "nonNumeric" -> DescNonNumeric
      [] id = "unknownType" -> DescUnknownType
      [] id = "malformed" -> Malformed
      [] OTHER -> Missing

\* What the files hold when the session starts.
InitialFiles ==
    [path \in FilePaths |->
        CASE path = ShaderPath("s1") -> "A"
          [] path = ShaderPath("s2") -> "B"
          [] path = ShaderPath("s3") -> "malformed"
          [] path = "custom/wrongRoot.xml" -> "wrongRoot"
          [] path = "custom/nonNumeric.xml" -> "nonNumeric"
          [] path = "custom/unknownType.xml" -> "unknownType"]

Materials == {"matA", "matB"}
NoMat == "<no material>"
Unset == "<unset>"
NoIndex == -1

\* ---------------------------------------------------------------- host data
\* A freshly added I3DShaderParameter / I3DShaderTexture (property defaults).
NewShaderParameter ==
    [name |-> "Unnamed Attribute", type |-> "float", data_float_1 |-> 0,
     data_float_2 |-> <<0, 0>>, data_float_3 |-> <<0, 0, 0>>, data_float_4 |-> <<0, 0, 0, 0>>]

NewShaderTexture == [name |-> "Unnamed Texture", source |-> "", default_source |-> ""]

\* A new material's i3d_attributes: no ID property is stored yet.
NewAttributes ==
    [source |-> "", shader |-> NoIndex, shader_name |-> Unset, custom_shader |-> Unset,
     variation |-> NoIndex, variations |-> <<>>,
     shader_parameters |-> <<>>, shader_textures |-> <<>>]

\* The first position of x in the sequence s, 0 when it is not there.
IndexOf(s, x) ==
    IF \E i \in 1..Len(s) : s[i] = x
    THEN CHOOSE i \in 1..Len(s) : s[i] = x /\ \A j \in 1..(i - 1) : s[j] # x
    ELSE 0

\* ---------------------------------------------------------------- file access
\* The file at a path as the program sees it.
FileAt(path) ==
    IF path \notin FilePaths THEN Missing
    ELSE IF InShaderDir(path) /\ ~dirExists THEN Missing
    ELSE Content(fs[path])

\* xml_i3d.parse: None for a file that is missing or not well-formed.
parse(path) ==
    LET file == FileAt(path)
    IN  IF file.kind = "xml" THEN Some(file) ELSE None

\* shader_dir.glob('*.xml'): the stems of the files present.
Glob == SelectSeq(ShaderNames, LAMBDA n : Content(fs[ShaderPath(n)]).kind # "missing")

\* ---------------------------------------------------------------- the threaded state
\* What a handler reads and writes while it runs: the materials, the cache,
\* the scan count, whether an exception is propagating, and the operator's
\* return value.
World(m, c, n) == [mats |-> m, cache |-> c, scans |-> n, exc |-> FALSE, ret |-> ""]
Raise(w) == [w EXCEPT !.exc = TRUE]
Return(w, r) == IF w.exc THEN w ELSE [w EXCEPT !.ret = r]

MaxScans == 2

\* `if SHADER_CACHE:` -- None and the empty list are both false.
CacheHit(cache) == cache.set /\ cache.items # <<>>

\* shader_items_update, its effect on the module state.
shader_items_update(w) ==
    IF CacheHit(w.cache) THEN w
    ELSE IF ~dirExists THEN w
    ELSE [w EXCEPT !.cache = [set |-> TRUE, items |-> Glob],
                   !.scans = Min(@ + 1, MaxScans)]

\* shader_items_update, the identifiers of the items it returns.
ShaderItems(w) ==
    IF CacheHit(w.cache) THEN STATIC_ITEMS \o w.cache.items
    ELSE IF ~dirExists THEN <<"No shaders found">>
    ELSE STATIC_ITEMS \o Glob

\* shader_getter: the stored index, or the index of 'None' in the items (0
\* when it is not there).
shader_getter(w, m) ==
    LET items == ShaderItems(w)
        default_index == IF IndexOf(items, shader_default) = 0 THEN 0
                         ELSE IndexOf(items, shader_default) - 1
    IN  IF w.mats[m].shader = NoIndex THEN default_index ELSE w.mats[m].shader

\* Reading an enum property: the identifier of the item at the index the
\* getter returns, '' when no item has that index.
EnumIdentifier(items, index) ==
    IF index + 1 \in 1..Len(items) THEN items[index + 1] ELSE ""

\* attributes.shader as read
ShaderOf(w, m) == EnumIdentifier(ShaderItems(w), shader_getter(w, m))

\* variation_items_update / variation_getter; a getter result that is not an
\* index (the string default of an unset property) reads as item 0.
variation_getter(w, m) == IF w.mats[m].variation = NoIndex THEN 0 ELSE w.mats[m].variation
VariationOf(w, m) == EnumIdentifier(w.mats[m].variations, variation_getter(w, m))

custom_shader_getter(w, m) ==
    IF w.mats[m].custom_shader = Unset THEN custom_shader_default
    ELSE w.mats[m].custom_shader

\* The descriptor path both operators compute for a material.
DescriptorPath(w, m) ==
    IF custom_shader_getter(w, m) # custom_shader_default
    THEN custom_shader_getter(w, m)
    ELSE ShaderPath(ShaderOf(w, m))

\* ---------------------------------------------------------------- grouping (execute, lines 228-243)
\* group = grouped.setdefault(group_name, []); group.extend(list)
Extend(grouped, group_name, list) ==
    IF group_name \in DOMAIN grouped
    THEN [grouped EXCEPT ![group_name] = @ \o list]
    ELSE [g \in DOMAIN grouped \cup {group_name} |->
            IF g = group_name THEN list ELSE grouped[g]]

GroupOf(element) == IF IsNone(element.group) THEN "mandatory" ELSE Val(element.group)

EmptyDict == [g \in {} |-> <<>>]

\* grouped_parameters; raised when parameter_element_as_dict raises.
RECURSIVE GroupParametersFrom(_, _, _)
GroupParametersFrom(parameters, i, grouped) ==
    IF i > Len(parameters)
    THEN [raised |-> FALSE, grouped |-> grouped]
    ELSE LET d == parameter_element_as_dict(parameters[i])
         IN  IF d.raised
             THEN [raised |-> TRUE, grouped |-> grouped]
             ELSE GroupParametersFrom(parameters, i + 1,
                                      Extend(grouped, GroupOf(parameters[i]), d.list))

GroupParameters(root) ==
    IF IsNone(root.Parameters)
    THEN [raised |-> FALSE, grouped |-> EmptyDict]
    ELSE GroupParametersFrom(Val(root.Parameters), 1, EmptyDict)

\* A loader that takes every Texture element.
TextureTakenAll(texture) == TRUE
\* Whether a Texture element is taken: it has a defaultColorProfile.
TextureTaken(texture) == ~IsNone(texture.defaultColorProfile)

RECURSIVE GroupTexturesFrom(_, _, _)
GroupTexturesFrom(textures, i, grouped) ==
    IF i > Len(textures) THEN grouped
    ELSE GroupTexturesFrom(textures, i + 1,
            IF TextureTaken(textures[i])
            THEN Extend(grouped, GroupOf(textures[i]), <<texture_element_as_dict(textures[i])>>)
            ELSE grouped)

GroupTextures(root) ==
    IF IsNone(root.Textures) THEN EmptyDict
    ELSE GroupTexturesFrom(Val(root.Textures), 1, EmptyDict)

\* ---------------------------------------------------------------- group selection (lines 245-250)
\* variations.find("./Variation[@name='...']"): the first match, or None.
FindVariation(variations, name) ==
    IF \E i \in 1..Len(variations) : variations[i].name = name
    THEN Some(variations[IndexOf([i \in 1..Len(variations) |-> variations[i].name], name)])
    ELSE None

GroupsAttribute(variation) ==
    IF IsNone(variation.groups) THEN <<>> ELSE Val(variation.groups)

SplitGroups(variation) ==
    LET tokens == split(GroupsAttribute(variation))
    IN  [i \in 1..Len(tokens) |-> Joined(tokens[i])]

NoVariationGroups == <<"mandatory", "base">>

\* A selection that leaves 'mandatory' out.
VariationGroupsOnly(variation) == SplitGroups(variation)
VariationGroups(variation) == <<"mandatory">> \o SplitGroups(variation)

\* parameter_groups: [raised, groups].  variations or variation being None
\* raises AttributeError.
parameter_groups(root, variation_name) ==
    IF variation_name # shader_no_variation
    THEN IF IsNone(root.Variations)
         THEN [raised |-> TRUE, groups |-> <<>>]
         ELSE LET variation == FindVariation(Val(root.Variations), variation_name)
              IN  IF IsNone(variation)
                  THEN [raised |-> TRUE, groups |-> <<>>]
                  ELSE [raised |-> FALSE, groups |-> VariationGroups(Val(variation))]
    ELSE [raised |-> FALSE, groups |-> NoVariationGroups]

\* ---------------------------------------------------------------- filling the collections (lines 252-275)
FloatData(default_value) == [i \in 1..Len(default_value) |-> FloatOf(default_value[i])]

\* param = add(); param.name = ...; param.type = ...; param.data_float_N = data
FilledParameter(d) ==
    LET named == [NewShaderParameter EXCEPT !.name = d.name, !.type = d.type]
        data == FloatData(d.default_value)
    IN  IF d.type = "float" THEN [named EXCEPT !.data_float_1 = data[1]]
        ELSE IF d.type = "float2" THEN [named EXCEPT !.data_float_2 = data]
        ELSE IF d.type = "float3" THEN [named EXCEPT !.data_float_3 = data]
        ELSE IF d.type = "float4" THEN [named EXCEPT !.data_float_4 = data]
        ELSE named

\* tuple(map(float, default_value)) raises on the first non-numeric token;
\* the entry was added and named before that.
RECURSIVE AddParameters(_, _, _)
AddParameters(collection, dicts, i) ==
    IF i > Len(dicts)
    THEN [raised |-> FALSE, collection |-> collection]
    ELSE LET d == dicts[i]
         IN  IF \E k \in 1..Len(d.default_value) : ~FloatOk(d.default_value[k])
             THEN [raised |-> TRUE,
                   collection |-> Append(collection,
                        [NewShaderParameter EXCEPT !.name = d.name, !.type = d.type])]
             ELSE AddParameters(Append(collection, FilledParameter(d)), dicts, i + 1)

FilledTexture(t) ==
    [NewShaderTexture EXCEPT !.name = t.name, !.source = t.default_file,
                             !.default_source = t.default_file]

AddTextures(collection, dicts) ==
    collection \o [i \in 1..Len(dicts) |-> FilledTexture(dicts[i])]

\* for group in parameter_groups: the group's parameters, then its textures.
RECURSIVE AddGroups(_, _, _, _, _, _)
AddGroups(grouped_parameters, grouped_textures, groups, i, params, texs) ==
    IF i > Len(groups)
    THEN [raised |-> FALSE, shader_parameters |-> params, shader_textures |-> texs]
    ELSE LET group == groups[i]
             p == IF group \in DOMAIN grouped_parameters
                  THEN AddParameters(params, grouped_parameters[group], 1)
                  ELSE [raised |-> FALSE, collection |-> params]
             t == IF group \in DOMAIN grouped_textures
                  THEN AddTextures(texs, grouped_textures[group])
                  ELSE texs
         IN  IF p.raised
             THEN [raised |-> TRUE, shader_parameters |-> p.collection, shader_textures |-> texs]
             ELSE AddGroups(grouped_parameters, grouped_textures, groups, i + 1, p.collection, t)

\* ---------------------------------------------------------------- handlers
\* Statement sequencing: `x = e; rest(x)`, e evaluated once.
Bind(e, rest(_)) == CHOOSE r \in {rest(x) : x \in {e}} : TRUE

\* `x = e; rest(x)` where an exception raised by e propagates.
Then(e, rest(_)) == Bind(e, LAMBDA x : IF x.exc THEN x ELSE rest(x))

RECURSIVE clear_shader(_)
RECURSIVE shader_setter(_, _, _)
RECURSIVE custom_shader_setter(_, _, _)
RECURSIVE variation_setter(_, _, _)
RECURSIVE load_custom_shader(_, _)
RECURSIVE load_custom_shader_variation(_, _)

\* The host's assignment `attributes.shader = identifier`: the identifier is
\* looked up in the items (TypeError when it is not one), the setter gets
\* its index.
AssignShader(w, m, identifier) ==
    Bind(shader_items_update(w), LAMBDA w1 :
    Bind(IndexOf(ShaderItems(w1), identifier), LAMBDA index :
        IF index = 0 THEN Raise(w1) ELSE shader_setter(w1, m, index - 1)))

\* The host's assignment `attributes.variation = identifier`.
AssignVariation(w, m, identifier) ==
    Bind(IndexOf(w.mats[m].variations, identifier), LAMBDA index :
        IF index = 0 THEN Raise(w) ELSE variation_setter(w, m, index - 1))

\* clear_shader(context): works on context.object.active_material, whose
\* being None raises AttributeError.
clear_shader(w) ==
    IF active = NoMat THEN Raise(w)
    ELSE
    Bind(shader_items_update(w), LAMBDA w1 :
    Then(IF ShaderOf(w1, active) # shader_custom
         THEN AssignShader(w1, active, shader_default)
         ELSE w1, LAMBDA w2 :
    Then(custom_shader_setter(w2, active, custom_shader_default), LAMBDA w3 :
    Bind(shader_items_update(
             [w3 EXCEPT !.mats[active].variations = <<>>,
                        !.mats[active].shader_parameters = <<>>,
                        !.mats[active].shader_textures = <<>>]), LAMBDA w4 :
        IF ShaderOf(w4, active) \notin {shader_custom, shader_default}
        THEN AssignVariation(w4, active, shader_no_variation)
        ELSE w4))))

shader_setter(w, m, selected_index) ==
    Bind(shader_items_update(w), LAMBDA w1 :
    Bind(ShaderItems(w1)[selected_index + 1], LAMBDA selected_shader :
        IF w1.mats[m].shader = selected_index THEN w1
        ELSE
        Bind([w1 EXCEPT !.mats[m].shader = selected_index,
                        !.mats[m].shader_name = selected_shader], LAMBDA w2 :
            IF selected_shader \notin {shader_custom, shader_default}
            THEN IF m = active
                 THEN Then(load_custom_shader(w2, ""), LAMBDA w3 :
                           load_custom_shader_variation(w3, ""))
                 ELSE w2
            ELSE clear_shader(w2))))

custom_shader_setter(w, m, value) ==
    IF w.mats[m].custom_shader = Unset \/ w.mats[m].custom_shader # value
    THEN Bind([w EXCEPT !.mats[m].custom_shader = value], LAMBDA w1 :
             IF value # custom_shader_default THEN load_custom_shader(w1, "") ELSE w1)
    ELSE w

variation_setter(w, m, value) ==
    IF w.mats[m].variation = value THEN w
    ELSE Bind([w EXCEPT !.mats[m].variation = value], LAMBDA w1 :
             IF m = active THEN load_custom_shader_variation(w1, "") ELSE w1)

\* The names of the Variation elements, in document order.
VariationNames(root) ==
    IF IsNone(root.Variations) THEN <<>>
    ELSE [i \in 1..Len(Val(root.Variations)) |-> Val(root.Variations)[i].name]

\* I3DLoadCustomShader.execute once the material is resolved.  attributes.shader
\* is read for the path (when no custom shader is set) and for `file`.
LoadCustomShaderOn(w, m) ==
    Bind(IF custom_shader_getter(w, m) # custom_shader_default
         THEN w ELSE shader_items_update(w), LAMBDA w0 :
    Bind(shader_items_update(w0), LAMBDA w1 :
    Bind(parse(DescriptorPath(w1, m)), LAMBDA tree :
        IF IsNone(tree) THEN Return(clear_shader(w1), "FINISHED")
        ELSE IF Val(tree).root # "CustomShader" THEN Return(clear_shader(w1), "FINISHED")
        ELSE
        Then(AssignVariation([w1 EXCEPT !.mats[m].variations = <<shader_no_variation>>],
                             m, shader_no_variation), LAMBDA w3 :
            Return([w3 EXCEPT !.mats[m].variations = @ \o VariationNames(Val(tree))],
                   "FINISHED")))))

load_custom_shader(w, material_name) ==
    IF material_name # ""
    THEN IF material_name \notin Materials
         THEN Return(w, "CANCELLED")
         ELSE LoadCustomShaderOn(w, material_name)
    ELSE IF active = NoMat
         THEN Return(w, "CANCELLED")
         ELSE LoadCustomShaderOn(w, active)

\* The collections after lines 223-275 on a parsed document: [raised,
\* shader_parameters, shader_textures].
LoadedCollections(root, variation_name) ==
    Bind(GroupParameters(root), LAMBDA gp :
    Bind(parameter_groups(root, variation_name), LAMBDA pg :
        IF gp.raised \/ pg.raised
        THEN [raised |-> TRUE, shader_parameters |-> <<>>, shader_textures |-> <<>>]
        ELSE AddGroups(gp.grouped, GroupTextures(root), pg.groups, 1, <<>>, <<>>)))

\* I3DLoadCustomShaderVariation.execute once the material is resolved.
LoadVariationOn(w, m) ==
    Bind(IF custom_shader_getter(w, m) # custom_shader_default
         THEN w ELSE shader_items_update(w), LAMBDA w1 :
    Bind(parse(DescriptorPath(w1, m)), LAMBDA tree :
        IF IsNone(tree) THEN Return(clear_shader(w1), "FINISHED")
        ELSE
        Bind(LoadedCollections(Val(tree), VariationOf(w1, m)), LAMBDA filled :
        Bind([w1 EXCEPT !.mats[m].shader_parameters = filled.shader_parameters,
                        !.mats[m].shader_textures = filled.shader_textures], LAMBDA w3 :
            IF filled.raised THEN Raise(w3) ELSE Return(w3, "FINISHED")))))

load_custom_shader_variation(w, material_name) ==
    IF material_name # ""
    THEN IF material_name \notin Materials
         THEN Return(w, "CANCELLED")
         ELSE LoadVariationOn(w, material_name)
    ELSE IF active = NoMat
         THEN Return(w, "FINISHED")
         ELSE LoadVariationOn(w, active)

\* ---------------------------------------------------------------- I3DMigrateShader
\* Path(attr.source).stem for the paths of the model: the file name without
\* its directory and its suffix.
Stems == {ShaderNames[i] : i \in 1..Len(ShaderNames)}
            \cup {"wrongRoot", "nonNumeric", "unknownType", "absent"}
Stem(path) ==
    CHOOSE stem \in Stems : path \in {"shaders/" \o stem \o ".xml", "custom/" \o stem \o ".xml"}

\* bpy.data.materials in iteration order.
MaterialOrder == <<"matA", "matB">>

\* extract_parameters_data / apply_parameters_data: name, type and the one
\* data field of the type are copied to a freshly added parameter.
extract_parameters_data(attr) ==
    [i \in 1..Len(attr.shader_parameters) |->
        LET param == attr.shader_parameters[i]
        IN  [name |-> param.name, type |-> param.type,
             data |-> CASE param.type = "float" -> Some(param.data_float_1)
                        [] param.type = "float2" -> Some(param.data_float_2)
                        [] param.type = "float3" -> Some(param.data_float_3)
                        [] param.type = "float4" -> Some(param.data_float_4)
                        [] OTHER -> None]]

AppliedParameter(old_param) ==
    [NewShaderParameter EXCEPT
        !.name = old_param.name,
        !.type = old_param.type,
        !.data_float_1 = IF old_param.type = "float" THEN Val(old_param.data) ELSE @,
        !.data_float_2 = IF old_param.type = "float2" THEN Val(old_param.data) ELSE @,
        !.data_float_3 = IF old_param.type = "float3" THEN Val(old_param.data) ELSE @,
        !.data_float_4 = IF old_param.type = "float4" THEN Val(old_param.data) ELSE @]

apply_parameters_data(collection, old_parameters_data) ==
    collection \o [i \in 1..Len(old_parameters_data) |-> AppliedParameter(old_parameters_data[i])]

extract_textures_data(attr) ==
    [i \in 1..Len(attr.shader_textures) |->
        [name |-> attr.shader_textures[i].name,
         source |-> attr.shader_textures[i].source,
         default_source |-> attr.shader_textures[i].default_source]]

apply_textures_data(collection, old_textures_data) ==
    collection \o [i \in 1..Len(old_textures_data) |->
        [NewShaderTexture EXCEPT !.name = old_textures_data[i].name,
                                 !.source = old_textures_data[i].source,
                                 !.default_source = old_textures_data[i].default_source]]

\* Lines 374-382 for one material: the variation is assigned back, the two
\* collections are cleared and the old data is applied.
Reapply(w, m, old_variation, old_parameters_data, old_textures_data) ==
    Then(AssignVariation(w, m, old_variation), LAMBDA w1 :
        [w1 EXCEPT !.mats[m].shader_parameters = apply_parameters_data(<<>>, old_parameters_data),
                   !.mats[m].shader_textures = apply_textures_data(<<>>, old_textures_data)])

\* The body of the loop (lines 347-382) for one material.  fs19_support is
\* the set of the stems of the .xml files of the fs19Support folder.
\* Iterating SHADER_CACHE while it is None raises TypeError; so does
\* fs19_support + str, a Path added to a string.
MigrateMaterial(w, m, fs19_support) ==
    IF w.mats[m].source = "" THEN w
    ELSE
    Bind(Stem(w.mats[m].source), LAMBDA shader_name :
    Bind(VariationOf(w, m), LAMBDA old_variation :
    Bind(extract_parameters_data(w.mats[m]), LAMBDA old_parameters_data :
    Bind(extract_textures_data(w.mats[m]), LAMBDA old_textures_data :
        IF ~w.cache.set THEN Raise(w)
        ELSE IF \E i \in 1..Len(w.cache.items) : w.cache.items[i] = shader_name
        THEN Then(AssignShader(w, m, shader_name), LAMBDA w1 :
                 Reapply(w1, m, old_variation, old_parameters_data, old_textures_data))
        ELSE IF shader_name \in fs19_support
        THEN Then(AssignShader(w, m, shader_custom), LAMBDA w1 : Raise(w1))
        ELSE IF FileAt(w.mats[m].source).kind = "missing" THEN w
        ELSE Then(AssignShader(w, m, shader_custom), LAMBDA w1 :
             Then(custom_shader_setter(w1, m, w1.mats[m].source), LAMBDA w2 :
                 Reapply(w2, m, old_variation, old_parameters_data, old_textures_data)))))))

RECURSIVE MigrateFrom(_, _, _)
MigrateFrom(w, i, fs19_support) ==
    IF i > Len(MaterialOrder) THEN w
    ELSE Then(MigrateMaterial(w, MaterialOrder[i], fs19_support), LAMBDA w1 :
             MigrateFrom(w1, i + 1, fs19_support))

\* I3DMigrateShader.execute.  fs19 is None when the fs19Support folder does
\* not exist.  The data path is the directory that holds the shader
\* directory of the model.
migrate_shader(w, fs19) ==
    IF ~dirExists THEN Return(w, "CANCELLED")
    ELSE IF IsNone(fs19) THEN Return(w, "CANCELLED")
    ELSE Return(MigrateFrom(w, 1, Val(fs19)), "FINISHED")

\* ---------------------------------------------------------------- inputs of the parser specification
MaxTokens == 5
MaxChildren == 2

\* Default strings: the first k of the tokens 1 2 3 ..., separated by one
\* blank, or (wide) by two blanks after a leading blank.
TokenAt(i) == <<CASE i = 1 -> "1" [] i = 2 -> "2" [] i = 3 -> "3" [] i = 4 -> "4"
                  [] i = 5 -> "5" [] i = 6 -> "6" [] OTHER -> "7">>

RECURSIVE Spaced(_, _)
Spaced(k, wide) ==
    IF k = 0 THEN (IF wide THEN <<" ">> ELSE <<>>)
    ELSE Spaced(k - 1, wide)
         \o (IF k > 1 THEN (IF wide THEN <<" ", " ">> ELSE <<" ">>) ELSE <<>>)
         \o TokenAt(k)

DefaultStrings == {None} \cup {Some(Spaced(k, wide)) : k \in 0..MaxTokens, wide \in BOOLEAN}

ChildElements == {Child(index, text) : index \in {"0", "1"},
                                       text \in {None, Some(Spaced(3, FALSE))}}

ChildLists == UNION {[1..k -> ChildElements] : k \in 0..MaxChildren}

ParameterTypes == {"float", "float2", "float3", "float4", "int"}

ParameterElements ==
    {Param("p", type, None, arraySize, defaultValue, children) :
        type \in ParameterTypes, arraySize \in BOOLEAN,
        defaultValue \in DefaultStrings, children \in ChildLists}

NotCalled == [called |-> FALSE, raised |-> FALSE, list |-> <<>>]

\* ---------------------------------------------------------------- steps
W0 == World(mats, SHADER_CACHE, scans)

\* What the last step ran: the operator or property, the material it was
\* for (the one an operator resolved), the descriptor path that material had
\* when an operator started, and how the step ended: an operator's return
\* value, "DONE" for a property assignment, "RAISED" for an exception.
Ran(op, m, path, ret) == [op |-> op, mat |-> m, path |-> path, ret |-> ret]

OperatorResult(w) == IF w.exc THEN "RAISED" ELSE w.ret
SetterResult(w) == IF w.exc THEN "RAISED" ELSE "DONE"

Outside == Ran("outside", NoMat, "", "")

Commit(w) ==
    /\ mats' = w.mats
    /\ SHADER_CACHE' = w.cache
    /\ scans' = w.scans
    /\ UNCHANGED <<fs, dirExists, active, parameter, parameter_list>>

\* The material an operator resolves from its material_name.
Resolved(material_name) ==
    IF material_name # ""
    THEN (IF material_name \in Materials THEN material_name ELSE NoMat)
    ELSE active

PathBefore(m) ==
    IF m = NoMat THEN "" ELSE DescriptorPath(shader_items_update(W0), m)

\* bpy.ops.i3dio.load_custom_shader(material_name=...)
LoadCustomShader(material_name) ==
    \E w \in {load_custom_shader(W0, material_name)}, m \in {Resolved(material_name)} :
        /\ Commit(w)
        /\ last' = Ran("load_custom_shader", m, PathBefore(m), OperatorResult(w))

\* bpy.ops.i3dio.load_custom_shader_variation(material_name=...)
LoadCustomShaderVariation(material_name) ==
    \E w \in {load_custom_shader_variation(W0, material_name)}, m \in {Resolved(material_name)} :
        /\ Commit(w)
        /\ last' = Ran("load_custom_shader_variation", m, PathBefore(m), OperatorResult(w))

\* material.i3d_attributes.shader = identifier, for an identifier of the
\* enum whose index is not the stored one (with the stored one the setter
\* only calls shader_items_update).
SetShader(m, identifier) ==
    /\ IndexOf(ShaderItems(shader_items_update(W0)), identifier) # 0
    /\ IndexOf(ShaderItems(shader_items_update(W0)), identifier) - 1 # mats[m].shader
    /\ \E w \in {AssignShader(W0, m, identifier)} :
        /\ Commit(w)
        /\ last' = Ran("shader", m, "", SetterResult(w))

\* material.i3d_attributes.custom_shader = value, for a value that is not
\* the stored one (with the stored one the setter does nothing).
SetCustomShader(m, value) ==
    /\ mats[m].custom_shader = Unset \/ mats[m].custom_shader # value
    /\ \E w \in {custom_shader_setter(W0, m, value)} :
        /\ Commit(w)
        /\ last' = Ran("custom_shader", m, "", SetterResult(w))

\* material.i3d_attributes.variation = identifier, for an identifier of the
\* enum whose index is not the stored one (with the stored one the setter
\* returns at once).
SetVariation(m, identifier) ==
    /\ IndexOf(mats[m].variations, identifier) # 0
    /\ IndexOf(mats[m].variations, identifier) - 1 # mats[m].variation
    /\ \E w \in {AssignVariation(W0, m, identifier)} :
        /\ Commit(w)
        /\ last' = Ran("variation", m, "", SetterResult(w))

\* The panel drawing the shader enum: the host calls shader_items_update.
DrawShaderItems ==
    /\ Commit(shader_items_update(W0))
    /\ last' = Ran("shader_items_update", NoMat, "", "DONE")

\* A shader file written to, or removed from, the shader directory.
WriteFile(path, id) ==
    /\ dirExists
    /\ id # fs[path]
    /\ fs' = [fs EXCEPT ![path] = id]
    /\ last' = Outside
    /\ UNCHANGED <<mats, SHADER_CACHE, scans, dirExists, active, parameter, parameter_list>>

\* The shader directory removed with its files, or created empty.
SetShaderDir(exists) ==
    /\ exists # dirExists
    /\ dirExists' = exists
    /\ fs' = [path \in FilePaths |-> IF InShaderDir(path) THEN "missing" ELSE fs[path]]
    /\ last' = Outside
    /\ UNCHANGED <<mats, SHADER_CACHE, scans, active, parameter, parameter_list>>

PanelMaterial == "matA"
ApiMaterial == "matB"

Init ==
    /\ mats = [m \in Materials |-> NewAttributes]
    /\ SHADER_CACHE = [set |-> FALSE, items |-> <<>>]
    /\ scans = 0
    /\ fs = InitialFiles
    /\ dirExists = TRUE
    /\ active \in {PanelMaterial, NoMat}
    /\ last = Outside
    /\ parameter = Param("p", "float", None, FALSE, None, <<>>)
    /\ parameter_list = NotCalled

\* The material edited in the panel: the operators as the setters call them
\* (no material_name) or with a name no material has, and every value of the
\* three properties.
Next ==
    \/ \E material_name \in {"", "ghost"} : LoadCustomShader(material_name)
    \/ \E material_name \in {"", "ghost"} : LoadCustomShaderVariation(material_name)
    \/ \E identifier \in {"None", "Custom", "s1", "s2", "s3"} :
          SetShader(PanelMaterial, identifier)
    \/ \E value \in {"", ShaderPath("s1"), ShaderPath("s2")} \cup CustomPaths :
          SetCustomShader(PanelMaterial, value)
    \/ \E identifier \in {"None", "v1", "v2"} : SetVariation(PanelMaterial, identifier)

Spec == Init /\ [][Next]_vars

\* ---------------------------------------------------------------- a material driven through the API
\* A second material that is never the active one, driven by the operators
\* with its name and by property assignments, next to the panel's material.
ApiNext ==
    \/ \E material_name \in {"", ApiMaterial, "ghost"} : LoadCustomShader(material_name)
    \/ \E material_name \in {"", ApiMaterial, "ghost"} : LoadCustomShaderVariation(material_name)
    \/ \E identifier \in {"None", "s1"} : SetShader(PanelMaterial, identifier)
    \/ \E identifier \in {"None", "Custom", "s1", "s2"} : SetShader(ApiMaterial, identifier)
    \/ \E value \in {AbsentPath, "custom/wrongRoot.xml"} : SetCustomShader(ApiMaterial, value)
    \/ \E identifier \in {"None", "v1"} : SetVariation(ApiMaterial, identifier)

ApiSpec == Init /\ [][ApiNext]_vars

\* ---------------------------------------------------------------- the shader list on its own
\* shader_items_update calls interleaved with changes to the shader directory.
ShaderFileContents(path) == {InitialFiles[path], "missing"}

CacheNext ==
    \/ DrawShaderItems
    \/ \E path \in {p \in FilePaths : InShaderDir(p)} :
         \E id \in ShaderFileContents(path) : WriteFile(path, id)
    \/ \E exists \in BOOLEAN : SetShaderDir(exists)

CacheInit ==
    /\ Init!1 /\ Init!2 /\ Init!3 /\ Init!7 /\ Init!8 /\ Init!9
    /\ active = NoMat
    /\ dirExists \in BOOLEAN
    /\ fs \in {f \in [FilePaths -> {"A", "B", "malformed", "missing", "wrongRoot",
                                    "nonNumeric", "unknownType"}] :
                 /\ \A path \in FilePaths : f[path] \in ShaderFileContents(path)
                 /\ ~dirExists => \A path \in FilePaths : InShaderDir(path) => f[path] = "missing"
                 /\ \A path \in FilePaths : ~InShaderDir(path) => f[path] = InitialFiles[path]}

CacheSpec == CacheInit /\ [][CacheNext]_vars

\* ---------------------------------------------------------------- the parser on its own
ParseParameter ==
    /\ ~parameter_list.called
    /\ parameter_list' = [called |-> TRUE,
                          raised |-> parameter_element_as_dict(parameter).raised,
                          list |-> parameter_element_as_dict(parameter).list]
    /\ UNCHANGED <<mats, SHADER_CACHE, scans, fs, dirExists, active, last, parameter>>

ParserInit ==
    /\ mats = [m \in Materials |-> NewAttributes]
    /\ SHADER_CACHE = [set |-> FALSE, items |-> <<>>]
    /\ scans = 0
    /\ fs = InitialFiles
    /\ dirExists = TRUE
    /\ active = NoMat
    /\ last = Outside
    /\ parameter \in ParameterElements
    /\ parameter_list = NotCalled

ParserNext == ParseParameter

ParserSpec == ParserInit /\ [][ParserNext]_vars

\* ---------------------------------------------------------------- migration of legacy materials
\* A material saved by the legacy add-on: `source` names its descriptor, the
\* collections hold what that descriptor gave for the selected variation,
\* with values the user has edited since (scalars set to 7, texture sources
\* set to a file of the user).
LegacyAttributes(source, root, variation_index) ==
    LET names == <<shader_no_variation>> \o VariationNames(root)
        loaded == LoadedCollections(root, names[variation_index + 1])
    IN  [NewAttributes EXCEPT
            !.source = source,
            !.variations = names,
            !.variation = variation_index,
            !.shader_parameters =
                [i \in 1..Len(loaded.shader_parameters) |->
                    IF loaded.shader_parameters[i].type = "float"
                    THEN [loaded.shader_parameters[i] EXCEPT !.data_float_1 = 7]
                    ELSE loaded.shader_parameters[i]],
            !.shader_textures =
                [i \in 1..Len(loaded.shader_textures) |->
                    [loaded.shader_textures[i] EXCEPT !.source = "user.png"]]]

LegacyMaterials ==
    {LegacyAttributes(ShaderPath("s1"), DescA, 1),
     LegacyAttributes("custom/wrongRoot.xml", DescWrongRoot, 0),
     LegacyAttributes(AbsentPath, DescB, 0)}

\* The fs19Support/shaders folder: absent, empty, or holding absent.xml.
Fs19Folders == {None, Some({}), Some({"absent"})}

\* bpy.ops.i3dio.migrate_shader()
MigrateShader(fs19) ==
    \E w \in {migrate_shader(W0, fs19)} :
        /\ Commit(w)
        /\ last' = Ran("migrate_shader", NoMat, "", OperatorResult(w))

MigrateInit ==
    /\ mats \in [Materials -> {NewAttributes} \cup LegacyMaterials]
    /\ SHADER_CACHE = [set |-> FALSE, items |-> <<>>]
    /\ scans = 0
    /\ fs = InitialFiles
    /\ dirExists = TRUE
    /\ active \in Materials \cup {NoMat}
    /\ last = Outside
    /\ parameter = Param("p", "float", None, FALSE, None, <<>>)
    /\ parameter_list = NotCalled

\* The panel is drawn or not before the migration runs; materials that are
\* not legacy ones get a shader through the enum.
MigrateNext ==
    \/ \E fs19 \in Fs19Folders : MigrateShader(fs19)
    \/ DrawShaderItems
    \/ \E m \in Materials, identifier \in {"None", "s1"} :
          mats[m].source = "" /\ SetShader(m, identifier)

MigrateSpec == MigrateInit /\ [][MigrateNext]_vars

\* ================================================================ claims
LoadOperators == {"load_custom_shader", "load_custom_shader_variation"}
Setters == {"shader", "custom_shader", "variation"}

\* The file the last operator parsed.
ParsedFile == FileAt(last.path)
ValidDescriptor(file) == file.kind = "xml" /\ file.root = "CustomShader"

RECURSIVE Concat(_)
Concat(lists) == IF lists = <<>> THEN <<>> ELSE Head(lists) \o Concat(Tail(lists))

Elements(section) == IF IsNone(section) THEN <<>> ELSE Val(section)

\* The groups a variation selection activates, in activation order.
ActivatedGroups(doc, variation_name) ==
    IF variation_name = "None" THEN <<"mandatory", "base">>
    ELSE <<"mandatory">>
         \o SplitGroups(Val(FindVariation(Elements(doc.Variations), variation_name)))

\* The entries one group of the descriptor contributes, in declaration order.
ParameterEntries(element) ==
    [i \in 1..Len(parameter_element_as_dict(element).list) |->
        FilledParameter(parameter_element_as_dict(element).list[i])]

ParametersOfGroup(doc, group) ==
    LET declared == SelectSeq(Elements(doc.Parameters), LAMBDA e : GroupOf(e) = group)
    IN  Concat([i \in 1..Len(declared) |-> ParameterEntries(declared[i])])

TexturesOfGroup(doc, group) ==
    LET declared == SelectSeq(Elements(doc.Textures),
                              LAMBDA t : GroupOf(t) = group /\ ~IsNone(t.defaultColorProfile))
    IN  [i \in 1..Len(declared) |-> FilledTexture(texture_element_as_dict(declared[i]))]

ExpectedParameters(doc, variation_name) ==
    LET groups == ActivatedGroups(doc, variation_name)
    IN  Concat([i \in 1..Len(groups) |-> ParametersOfGroup(doc, groups[i])])

ExpectedTextures(doc, variation_name) ==
    LET groups == ActivatedGroups(doc, variation_name)
    IN  Concat([i \in 1..Len(groups) |-> TexturesOfGroup(doc, groups[i])])

\* The last step was a load_custom_shader_variation that returned FINISHED
\* after parsing a document.
VariationLoaded ==
    /\ last.op = "load_custom_shader_variation"
    /\ last.ret = "FINISHED"
    /\ last.mat # NoMat
    /\ ParsedFile.kind = "xml"

\* C1: after load_custom_shader_variation succeeds on a valid descriptor, the
\* material's parameter list and its texture list are exactly the
\* concatenation of the descriptor's groups in activation order ('mandatory'
\* then 'base' for the variation 'None', 'mandatory' then the variation's
\* declared groups otherwise), each group in declaration order, absent groups
\* contributing nothing and nothing of the previous load remaining.
C1_GroupsConcatenated ==
    (VariationLoaded /\ ValidDescriptor(ParsedFile)) =>
        /\ mats[last.mat].shader_parameters
             = ExpectedParameters(ParsedFile, VariationOf(W0, last.mat))
        /\ mats[last.mat].shader_textures
             = ExpectedTextures(ParsedFile, VariationOf(W0, last.mat))

\* A load of descriptor A with the variation v1 (groups "extra") selected:
\* the three mandatory entries, then the one of "extra".
C1_Witness ==
    /\ VariationLoaded
    /\ last.path = ShaderPath("s1")
    /\ VariationOf(W0, last.mat) = "v1"
    /\ Len(mats[last.mat].shader_parameters) = 4
    /\ Len(mats[last.mat].shader_textures) = 2

\* C2: whenever one of the two load operators runs for a material M whose
\* descriptor is absent or malformed, M's variations, shader_parameters and
\* shader_textures are all empty afterwards.
C2_ClearedWhenNoDescriptor ==
    (/\ last.op \in LoadOperators
     /\ last.mat # NoMat
     /\ last.ret = "FINISHED"
     /\ ParsedFile.kind \in {"missing", "malformed"}) =>
        /\ mats[last.mat].variations = <<>>
        /\ mats[last.mat].shader_parameters = <<>>
        /\ mats[last.mat].shader_textures = <<>>

\* C3: for each of the three error kinds (file missing, not well-formed,
\* root tag not 'CustomShader') and from any prior state, a shader load
\* leaves the material with shader 'None', an empty custom_shader, the
\* variation 'None' (the first item, index 0) and no parameters or textures.
C3_NoShaderSelectedAfterError ==
    (/\ last.op \in LoadOperators
     /\ last.mat # NoMat
     /\ last.ret = "FINISHED"
     /\ ~ValidDescriptor(ParsedFile)) =>
        /\ ShaderOf(W0, last.mat) = shader_default
        /\ custom_shader_getter(W0, last.mat) = custom_shader_default
        /\ variation_getter(W0, last.mat) = 0
        /\ mats[last.mat].shader_parameters = <<>>
        /\ mats[last.mat].shader_textures = <<>>

\* C4: the two load operators never raise: whatever the descriptor file and
\* the material state, they end by returning FINISHED or CANCELLED.
C4_OperatorsNeverRaise ==
    last.op \in LoadOperators => last.ret \in {"FINISHED", "CANCELLED"}

\* The descriptor the material now selects, when it is a valid one that
\* loads without an exception for the selected variation.
SelectedFile(m) == FileAt(DescriptorPath(W0, m))
SelectsValidDescriptor(m) ==
    /\ ValidDescriptor(SelectedFile(m))
    /\ ~LoadedCollections(SelectedFile(m), VariationOf(W0, m)).raised

\* C5: immediately after each step that changes the selected shader, the
\* custom shader path or the variation of the active material, with valid
\* descriptors, the material's parameter and texture lists are the ones
\* freshly derived from the now-selected descriptor and variation.
C5_FreshAfterEveryChange ==
    (/\ last.op \in Setters
     /\ last.mat = active
     /\ last.ret = "DONE"
     /\ SelectsValidDescriptor(last.mat)) =>
        /\ mats[last.mat].shader_parameters
             = LoadedCollections(SelectedFile(last.mat), VariationOf(W0, last.mat)).shader_parameters
        /\ mats[last.mat].shader_textures
             = LoadedCollections(SelectedFile(last.mat), VariationOf(W0, last.mat)).shader_textures

\* The tokens of a parameter's default string, and the arity of its type.
SuppliedTokens(default) == IF IsNone(default) THEN <<>> ELSE split(Val(default))
Arity(type) == CASE type = "float" -> 1 [] type = "float2" -> 2 [] type = "float3" -> 3
                 [] type = "float4" -> 4 [] OTHER -> 0

\* The parser returned for an entry of recognised type.
Parsed == parameter_list.called /\ ~parameter_list.raised

\* The default string each returned spec was derived from.
SourceOf(i) ==
    IF parameter.arraySize THEN parameter.children[i].text ELSE parameter.defaultValue

\* C6: for a parameter of arity N whose default string has more than N
\* components, the derived default is the first N of them in order.
C6_KeepsFirstN ==
    Parsed =>
        \A i \in 1..Len(parameter_list.list) :
            Len(SuppliedTokens(SourceOf(i))) > Arity(parameter.type) =>
                parameter_list.list[i].default_value
                    = SubSeq(SuppliedTokens(SourceOf(i)), 1, Arity(parameter.type))

\* C7: for every parameter entry of recognised type and every default
\* string, the derived default has exactly arity components; a default of
\* at most arity components is kept in order and followed by zeros.
C7_DefaultHasArity ==
    Parsed =>
        \A i \in 1..Len(parameter_list.list) :
            LET supplied == SuppliedTokens(SourceOf(i))
                derived == parameter_list.list[i].default_value
                n == Arity(parameter.type)
            IN  /\ Len(derived) = n
                /\ Len(supplied) <= n =>
                     /\ SubSeq(derived, 1, Len(supplied)) = supplied
                     /\ \A k \in (Len(supplied) + 1)..n : derived[k] = <<"0">>

\* A 3-vector without a default: (0, 0, 0).
C7_Witness ==
    /\ Parsed
    /\ parameter.type = "float3"
    /\ ~parameter.arraySize
    /\ IsNone(parameter.defaultValue)
    /\ parameter_list.list[1].default_value = <<<<"0">>, <<"0">>, <<"0">>>>

\* C8: an entry with arraySize and k children yields exactly k specs, in
\* child order, the i-th named <name><index of child i> with the parent's
\* type and the default derived from that child's text; an entry without
\* arraySize yields exactly one spec named after it, whatever its children.
C8_ArrayExpansion ==
    Parsed =>
        IF parameter.arraySize
        THEN /\ Len(parameter_list.list) = Len(parameter.children)
             /\ \A i \in 1..Len(parameter.children) :
                    /\ parameter_list.list[i].name
                         = parameter.name \o parameter.children[i].index
                    /\ parameter_list.list[i].type = parameter.type
                    /\ parameter_list.list[i].default_value
                         = parse_default(parameter.children[i].text,
                                         TypeLength(parameter.type)).value
        ELSE /\ Len(parameter_list.list) = 1
             /\ parameter_list.list[1].name = parameter.name
             /\ parameter_list.list[1].type = parameter.type

\* An arraySize entry with two children, indices 1 and 0 in that order.
C8_Witness ==
    /\ Parsed
    /\ parameter.arraySize
    /\ Len(parameter.children) = 2
    /\ parameter.children[1].index = "1"
    /\ parameter.children[2].index = "0"
    /\ parameter_list.list[1].name = "p1"
    /\ parameter_list.list[2].name = "p0"

\* The texture entries of a material with a given name.
EntriesNamed(m, name) ==
    {i \in 1..Len(mats[m].shader_textures) : mats[m].shader_textures[i].name = name}

Activated(doc, variation_name) ==
    {ActivatedGroups(doc, variation_name)[i] :
        i \in 1..Len(ActivatedGroups(doc, variation_name))}

\* C9: a texture entry without a defaultColorProfile never appears in the
\* material's texture list, for any variation selection; one with the
\* attribute appears exactly when its group ('mandatory' when unspecified)
\* is activated, source and default_source being its defaultFilename (''
\* when absent).
C9_TexturesByColorProfile ==
    VariationLoaded =>
        \A k \in 1..Len(Elements(ParsedFile.Textures)) :
            LET texture == Elements(ParsedFile.Textures)[k]
                entries == EntriesNamed(last.mat, texture.name)
                file == IF IsNone(texture.defaultFilename) THEN ""
                        ELSE Val(texture.defaultFilename)
            IN  IF IsNone(texture.defaultColorProfile)
                THEN entries = {}
                ELSE /\ (entries # {}) <=>
                          (GroupOf(texture) \in Activated(ParsedFile, VariationOf(W0, last.mat)))
                     /\ \A i \in entries :
                          /\ mats[last.mat].shader_textures[i].source = file
                          /\ mats[last.mat].shader_textures[i].default_source = file

\* Descriptor A loaded with no variation: group "base" is activated, its
\* texture "baseTex" is listed and its texture "noprofile" is not.
C9_Witness ==
    /\ VariationLoaded
    /\ last.path = ShaderPath("s1")
    /\ VariationOf(W0, last.mat) = "None"
    /\ EntriesNamed(last.mat, "baseTex") # {}
    /\ EntriesNamed(last.mat, "noprofile") = {}
    /\ EntriesNamed(last.mat, "detail") = {}

\* C10: across shader_items_update calls interleaved with changes to the
\* shader directory, the directory is scanned at most once, and once
\* SHADER_CACHE has been assigned its content never changes.
C10_ScannedOnceThenFixed ==
    [][/\ scans' <= 1
       /\ SHADER_CACHE.set => SHADER_CACHE' = SHADER_CACHE]_vars

\* What the claims read of a material: the three properties as read through
\* their getters and the three collections.
Selection(w, m) ==
    [shader |-> ShaderOf(w, m),
     custom_shader |-> custom_shader_getter(w, m),
     variation |-> variation_getter(w, m),
     variations |-> w.mats[m].variations,
     shader_parameters |-> w.mats[m].shader_parameters,
     shader_textures |-> w.mats[m].shader_textures]

\* C11: setting the shader (to any item, 'None' and 'Custom' included) or the
\* variation of a material that is not the active material leaves the active
\* material's shader, custom_shader, variation, variations, shader_parameters
\* and shader_textures unchanged.
C11_ActiveMaterialUntouched ==
    [][(/\ last'.op \in {"shader", "variation"}
        /\ active # NoMat
        /\ last'.mat # active) =>
            Selection(shader_items_update(W0), active)' = Selection(shader_items_update(W0), active)]_vars

\* C13: after a successful load_custom_shader_variation every parameter spec
\* and texture spec of the descriptor occurs at most once in the material's
\* lists, whatever groups the variation lists ('mandatory' itself or a
\* repeated name included).
C13_EachSpecAtMostOnce ==
    (VariationLoaded /\ ValidDescriptor(ParsedFile)) =>
        /\ \A i, j \in 1..Len(mats[last.mat].shader_parameters) :
              mats[last.mat].shader_parameters[i].name = mats[last.mat].shader_parameters[j].name
                  => i = j
        /\ \A i, j \in 1..Len(mats[last.mat].shader_textures) :
              mats[last.mat].shader_textures[i].name = mats[last.mat].shader_textures[j].name
                  => i = j

\* A parameter as the panel shows it: its name, its type and the value of
\* the data field of that type.
TypedValue(param) ==
    [name |-> param.name, type |-> param.type,
     value |-> CASE param.type = "float" -> <<param.data_float_1>>
                 [] param.type = "float2" -> param.data_float_2
                 [] param.type = "float3" -> param.data_float_3
                 [] OTHER -> param.data_float_4]

\* What a migration has to keep of a material with a legacy source.
Kept(w, m) ==
    [shader_parameters |-> [i \in 1..Len(w.mats[m].shader_parameters) |->
                               TypedValue(w.mats[m].shader_parameters[i])],
     shader_textures |-> w.mats[m].shader_textures,
     variation |-> VariationOf(w, m)]

\* C12: when migrate_shader finishes, every material with a legacy source
\* has the parameters (names, types, values, order), the textures and the
\* selected variation it had before (a skipped one is unchanged altogether),
\* and every material with an empty source is unchanged, whichever material
\* is active and whether or not the shader list was cached beforehand.
C12_MigrationPreserves ==
    [][(last'.op = "migrate_shader" /\ last'.ret = "FINISHED") =>
          \A m \in Materials :
              IF mats[m].source = ""
              THEN Selection(shader_items_update(W0), m)' = Selection(shader_items_update(W0), m)
              ELSE Kept(W0, m)' = Kept(W0, m)]_vars

====
